---- MODULE Spec2Model ----
(***************************************************************************)
(* Model of the reconciliation core of idp-scim-sync (package core):       *)
(* groupsDifferences, usersDifferences and groupsUsersDifferences, the     *)
(* three functions that split an identity-provider snapshot and the last   *)
(* synced state into create / update / equal / delete partitions.          *)
(*                                                                         *)
(* The bodies of the three functions and of hash.Get are not among the     *)
(* source files; their tests (src/unnamed/part_000) and their callers      *)
(* (src/unnamed/part_001) are.  The scan structure is taken from the       *)
(* written design (sections 4.2 to 4.4); every choice the tests decide     *)
(* (the correlation key, what is compared, what the returned aggregates    *)
(* carry) is taken from the tests, and TestsPass checks the operators      *)
(* against every row of the three test tables.                             *)
(*                                                                         *)
(* Six specifications: Spec is one call of one reconciler, from call to    *)
(* return; RunSpec runs the reconcilers one loop iteration at a time, one  *)
(* call after the other or side by side; ProviderSpec is SCIMProvider      *)
(* (src/unnamed/part_001), which builds the snapshots of the target side,  *)
(* and ProvisionSpec its methods that are handed a partition; AwsSpec is   *)
(* AWSSCIMService (src/pkg/aws/scim.go), the client of the SCIM API;       *)
(* SyncSpec is the sync service as its test (src/unnamed/part_002) has it. *)
(***************************************************************************)
EXTENDS Integers, Sequences, FiniteSets, TLC

VARIABLES
    pc,      \* "idle" before the call, "done" once a reconciler returned
    kind,    \* which reconciler ran: "none", "groups", "users", "members"
    idp,     \* first argument: the snapshot fetched from the identity provider
    state,   \* second argument: the last synced snapshot
    create,  \* returned partitions
    update,
    equal,
    delete,
    schedule,  \* how the reconcilers are run: "none", "loop" or "goroutines"
    procs,     \* per reconciler: where its call in progress stands
    frames,    \* per call in progress: the lists the function is filling
    scim,      \* what the AWS SCIM API answers to ListUsers and ListGroups
    called,    \* the method that ran, "none" before
    returned,  \* what that method returned
    handed,    \* what that method was handed as its argument
    issued,    \* the calls that method made on its collaborator, in order
    aws,       \* the *AWSSCIMService that NewSCIMService built, if any
    http,      \* what the HTTP client answers to Do
    sync       \* the sync service, its collaborators and where its run stands

coreVars == <<pc, kind, idp, state, create, update, equal, delete>>
runVars == <<schedule, procs, frames>>
providerVars == <<scim, called, returned, handed, issued>>
awsVars == <<aws, http>>
syncVars == <<sync>>

vars == <<coreVars, runVars, providerVars, awsVars, syncVars>>

\* Longest Resources sequence of a generated snapshot.
MaxLen == 2

-----------------------------------------------------------------------------
(* Go values.  A *model.XResult is a record; IsNil models a nil pointer and *)
(* NilSlice a nil Resources slice (reflect.DeepEqual tells a nil slice from *)
(* an empty one, and the tests compare with it).                            *)

NilResult ==
    [IsNil |-> TRUE, Items |-> 0, Resources |-> <<>>, NilSlice |-> TRUE, HashCode |-> ""]

\* A literal &model.GroupsResult{Items: n, Resources: []*model.Group{...}}.
Result(items, resources) ==
    [IsNil |-> FALSE, Items |-> items, Resources |-> resources, NilSlice |-> FALSE,
     HashCode |-> ""]

\* model.Group{ID, Name, Email}; HashCode left at its zero value.
Group(id, name, email) ==
    [ID |-> id, Name |-> name, Email |-> email, HashCode |-> ""]

\* model.User{ID, Email, Name{FamilyName, GivenName}, DisplayName, Active}.
User(id, email, family, given, display, active) ==
    [ID |-> id, Email |-> email, Name |-> [FamilyName |-> family, GivenName |-> given],
     DisplayName |-> display, Active |-> active, HashCode |-> ""]

\* model.GroupUsers{Items, Group, Resources}.
GroupUsers(items, group, users) ==
    [Items |-> items, Group |-> group, Resources |-> users, HashCode |-> ""]

Range(s) == {s[i] : i \in 1..Len(s)}

SeqsUpTo(S, n) == UNION {[1..k -> S] : k \in 0..n}

-----------------------------------------------------------------------------
(* hash.Get: the content hasher.  A fingerprint is a string that spells the *)
(* hashed fields, so that two values have the same fingerprint exactly when *)
(* those fields agree (no collisions), and it is never the empty string.    *)

BoolStr(b) == IF b THEN "true" ELSE "false"

HashGroup(g) == "G(" \o g.ID \o "|" \o g.Name \o "|" \o g.Email \o ")"

HashUser(u) ==
    "U(" \o u.ID \o "|" \o u.Email \o "|" \o u.Name.FamilyName \o "|" \o u.Name.GivenName
         \o "|" \o u.DisplayName \o "|" \o BoolStr(u.Active) \o ")"

\* hash.Get takes any value; t names the Go type of e.  The fingerprint of
\* a membership covers the group and the ids of the members; the one of an
\* aggregate covers its Items and its Resources.
RECURSIVE HashGet(_, _)
RECURSIVE HashSeq(_, _)
HashSeq(t, s) == IF s = <<>> THEN "" ELSE HashGet(t, Head(s)) \o HashSeq(t, Tail(s))

HashGet(t, e) ==
    CASE t = "Group" -> HashGroup(e)
      [] t = "User" -> HashUser(e)
      [] t = "MemberID" -> e.ID \o ","
      [] t = "GroupUsers" ->
            "GU(" \o ToString(e.Items) \o ":" \o HashGroup(e.Group) \o ":"
                  \o HashSeq("MemberID", e.Resources) \o ")"
      [] t = "GroupsResult" ->
            "GR(" \o ToString(e.Items) \o ":" \o HashSeq("Group", e.Resources) \o ")"
      [] t = "UsersResult" ->
            "UR(" \o ToString(e.Items) \o ":" \o HashSeq("User", e.Resources) \o ")"
      [] t = "GroupsUsersResult" ->
            "GUR(" \o ToString(e.Items) \o ":" \o HashSeq("GroupUsers", e.Resources) \o ")"

\* e.HashCode = hash.Get(e)
\* A hasher that covers every field of e, HashCode among them.
WithHashOverAllFields(t, e) ==
    [e EXCEPT !.HashCode = e.HashCode \o "#" \o HashGet(t, e)]

WithHash(t, e) == [e EXCEPT !.HashCode = HashGet(t, e)]

-----------------------------------------------------------------------------
(* The correlation keys and the comparison of matched records.              *)

\* The key groups are correlated by.  The tests decide it: "1 equals, 1
\* update" changes only the Email of group 2 and expects an update with
\* nothing created or deleted, so the key is not Email; "1 update, change
\* the ID" changes only the ID and expects an update, so it is not ID.
\* The key the written design names: the Email.
GroupKeyByEmail(g) == g.Email

\* Correlation by the system-assigned id.
GroupKeyByID(g) == g.ID

GroupKey(g) == g.Name

UserKey(u) == u.Email

\* Memberships are matched by the id of the group and, inside a matched
\* group, members by their id.
MembershipKey(m) == m.Group.ID

MemberKey(u) == u.ID

\* k names the index: "groups", "users", "memberships" or "members".
Key(k, r) ==
    CASE k = "groups" -> GroupKey(r)
      [] k = "users" -> UserKey(r)
      [] k = "memberships" -> MembershipKey(r)
      [] k = "members" -> MemberKey(r)

\* Whether a matched pair is reported equal.  The records of the tests all
\* carry the empty HashCode and are still told apart, so the comparison is
\* over the content (the fingerprint computed from the fields), not over
\* the stored HashCode field.
\* A comparison of the stored HashCode fields.
GroupsSameByHashCode(g, p) == g.HashCode = p.HashCode

\* A comparison of the two *model.Group pointers: the snapshots are built
\* apart, so no pointer of one is a pointer of the other.
GroupsSameByPointer(g, p) == FALSE

GroupsSame(g, p) == HashGroup(g) = HashGroup(p)

\* A comparison of users that leaves the Active flag out.
UsersSameButActive(u, p) ==
    HashUser([u EXCEPT !.Active = TRUE]) = HashUser([p EXCEPT !.Active = TRUE])

UsersSame(u, p) == HashUser(u) = HashUser(p)

Same(k, g, p) == IF k = "groups" THEN GroupsSame(g, p) ELSE UsersSame(g, p)

-----------------------------------------------------------------------------
(* The scan shared by groupsDifferences and usersDifferences.               *)

Keys(k, s) == {Key(k, s[i]) : i \in 1..Len(s)}

\* The lookup index built from the previous snapshot: a map from key to
\* record, filled in sequence order, so a later record with the same key
\* replaces an earlier one.
Lookup(k, s, key) ==
    s[CHOOSE i \in 1..Len(s) :
          Key(k, s[i]) = key /\ \A j \in (i + 1)..Len(s) : Key(k, s[j]) # key]

EmptyAcc == [toCreate |-> <<>>, toUpdate |-> <<>>, toEqual |-> <<>>]

\* The loop over the current snapshot: each record is appended to exactly
\* one of the three lists.
RECURSIVE ScanCurrent(_, _, _, _)
ScanCurrent(k, rest, prev, acc) ==
    IF rest = <<>> THEN acc
    ELSE LET g == Head(rest)
             next == IF Key(k, g) \notin Keys(k, prev)
                         THEN [acc EXCEPT !.toCreate = Append(@, g)]
                     ELSE IF ~Same(k, g, Lookup(k, prev, Key(k, g)))
                         THEN [acc EXCEPT !.toUpdate = Append(@, g)]
                     ELSE [acc EXCEPT !.toEqual = Append(@, g)]
         IN  ScanCurrent(k, Tail(rest), prev, next)

\* The loop over the previous snapshot: a record no current record consumed
\* is appended to the delete list.
\* A delete list filled in the opposite order.
RECURSIVE ScanPreviousPrepend(_, _, _, _)
ScanPreviousPrepend(k, rest, cur, acc) ==
    IF rest = <<>> THEN acc
    ELSE ScanPreviousPrepend(k, Tail(rest), cur,
                             IF Key(k, Head(rest)) \notin Keys(k, cur)
                                 THEN <<Head(rest)>> \o acc
                             ELSE acc)

RECURSIVE ScanPrevious(_, _, _, _)
ScanPrevious(k, rest, cur, acc) ==
    IF rest = <<>> THEN acc
    ELSE ScanPrevious(k, Tail(rest), cur,
                      IF Key(k, Head(rest)) \notin Keys(k, cur) THEN Append(acc, Head(rest))
                      ELSE acc)

\* The aggregate a reconciler returns for one partition: a non-nil result
\* over a non-nil slice, Items set to the length of the list, HashCode left
\* at its zero value (the expected values of the tests carry no HashCode and
\* are compared with reflect.DeepEqual).
\* Lists declared with var (a nil slice until the first append).
PartitionNilSlice(list) == [Result(Len(list), list) EXCEPT !.NilSlice = (list = <<>>)]

\* Items never set.
PartitionItemsUnset(list) == Result(0, list)

\* HashCode set from the resulting aggregate.
PartitionHashed(list) ==
    [Result(Len(list), list) EXCEPT !.HashCode = "R(" \o ToString(Len(list)) \o ")"]

Partition(list) == Result(Len(list), list)

-----------------------------------------------------------------------------
(* groupsDifferences(idp, state) and usersDifferences(idp, state)           *)

\* A scan that never fills the delete list.
groupsDifferencesNoDelete(i, s) ==
    LET acc == ScanCurrent("groups", i.Resources, s.Resources, EmptyAcc)
    IN  [create |-> Partition(acc.toCreate), update |-> Partition(acc.toUpdate),
         equal |-> Partition(acc.toEqual), delete |-> Partition(<<>>)]

groupsDifferences(i, s) ==
    LET acc == ScanCurrent("groups", i.Resources, s.Resources, EmptyAcc)
        toDelete == ScanPrevious("groups", s.Resources, i.Resources, <<>>)
    IN  [create |-> Partition(acc.toCreate), update |-> Partition(acc.toUpdate),
         equal |-> Partition(acc.toEqual), delete |-> Partition(toDelete)]

\* A scan that puts every previous record in the delete list.
usersDifferencesDeleteAll(i, s) ==
    LET acc == ScanCurrent("users", i.Resources, s.Resources, EmptyAcc)
    IN  [create |-> Partition(acc.toCreate), update |-> Partition(acc.toUpdate),
         equal |-> Partition(acc.toEqual), delete |-> Partition(s.Resources)]

usersDifferences(i, s) ==
    LET acc == ScanCurrent("users", i.Resources, s.Resources, EmptyAcc)
        toDelete == ScanPrevious("users", s.Resources, i.Resources, <<>>)
    IN  [create |-> Partition(acc.toCreate), update |-> Partition(acc.toUpdate),
         equal |-> Partition(acc.toEqual), delete |-> Partition(toDelete)]

-----------------------------------------------------------------------------
(* groupsUsersDifferences(idp, state)                                       *)

\* A split that passes every member on, whatever the other side holds.
FilterMembersKeepAll(users, others, keep) == users

\* The members of `users` whose id is (keep = TRUE) or is not (keep = FALSE)
\* among the ids of `others`, in the order of `users`.
RECURSIVE FilterMembers(_, _, _)
FilterMembers(users, others, keep) ==
    IF users = <<>> THEN <<>>
    ELSE LET rest == FilterMembers(Tail(users), others, keep)
         IN  IF (MemberKey(Head(users)) \in Keys("members", others)) = keep
                 THEN <<Head(users)>> \o rest
             ELSE rest

\* One entry of a partition: the group with the given subset of members, its
\* Items set to the number of members carried.
\* An entry whose Items is never set.
EntryItemsUnset(group, members) == GroupUsers(0, group, members)

Entry(group, members) == GroupUsers(Len(members), group, members)

\* A group contributes an entry to a partition only if its subset of
\* members for that partition is not empty.
AppendEntry(list, group, members) ==
    IF members = <<>> THEN list ELSE Append(list, Entry(group, members))

EmptyMembersAcc == [toCreate |-> <<>>, toEqual |-> <<>>]

\* The loop over the current memberships.  The rule of AppendEntry is the
\* same in every branch and in ScanLeftovers: a group the previous snapshot
\* does not know brings all its members to create, and no entry when it has
\* none.
\* A loop that takes over the whole current entry of a group the previous
\* snapshot does not know, members or not.
RECURSIVE ScanMembershipsWholeEntry(_, _, _)
ScanMembershipsWholeEntry(rest, prev, acc) ==
    IF rest = <<>> THEN acc
    ELSE LET m == Head(rest)
             next ==
                 IF MembershipKey(m) \notin Keys("memberships", prev)
                     THEN [acc EXCEPT !.toCreate = Append(@, Entry(m.Group, m.Resources))]
                 ELSE LET p == Lookup("memberships", prev, MembershipKey(m))
                      IN  [acc EXCEPT
                              !.toCreate = AppendEntry(@, m.Group,
                                              FilterMembers(m.Resources, p.Resources, FALSE)),
                              !.toEqual = AppendEntry(@, m.Group,
                                              FilterMembers(m.Resources, p.Resources, TRUE))]
         IN  ScanMembershipsWholeEntry(Tail(rest), prev, next)

RECURSIVE ScanMemberships(_, _, _)
ScanMemberships(rest, prev, acc) ==
    IF rest = <<>> THEN acc
    ELSE LET m == Head(rest)
             next ==
                 IF MembershipKey(m) \notin Keys("memberships", prev)
                     \* every member of the group is new
                     THEN [acc EXCEPT !.toCreate = AppendEntry(@, m.Group, m.Resources)]
                 ELSE LET p == Lookup("memberships", prev, MembershipKey(m))
                      IN  [acc EXCEPT
                              !.toCreate = AppendEntry(@, m.Group,
                                              FilterMembers(m.Resources, p.Resources, FALSE)),
                              !.toEqual = AppendEntry(@, m.Group,
                                              FilterMembers(m.Resources, p.Resources, TRUE))]
         IN  ScanMemberships(Tail(rest), prev, next)

\* The loop over the previous memberships: a group never consumed leaves all
\* its members, a consumed one the members no current entry matched.
\* A loop that looks only at the groups a current entry consumed.
RECURSIVE ScanLeftoversConsumedOnly(_, _, _)
ScanLeftoversConsumedOnly(rest, cur, acc) ==
    IF rest = <<>> THEN acc
    ELSE LET p == Head(rest)
             left == IF MembershipKey(p) \notin Keys("memberships", cur) THEN <<>>
                     ELSE FilterMembers(p.Resources,
                                        Lookup("memberships", cur, MembershipKey(p)).Resources,
                                        FALSE)
         IN  ScanLeftoversConsumedOnly(Tail(rest), cur, AppendEntry(acc, p.Group, left))

RECURSIVE ScanLeftovers(_, _, _)
ScanLeftovers(rest, cur, acc) ==
    IF rest = <<>> THEN acc
    ELSE LET p == Head(rest)
             left == IF MembershipKey(p) \notin Keys("memberships", cur) THEN p.Resources
                     ELSE FilterMembers(p.Resources,
                                        Lookup("memberships", cur, MembershipKey(p)).Resources,
                                        FALSE)
         IN  ScanLeftovers(Tail(rest), cur, AppendEntry(acc, p.Group, left))

groupsUsersDifferences(i, s) ==
    LET acc == ScanMemberships(i.Resources, s.Resources, EmptyMembersAcc)
        toDelete == ScanLeftovers(s.Resources, i.Resources, <<>>)
    IN  [create |-> Partition(acc.toCreate), equal |-> Partition(acc.toEqual),
         delete |-> Partition(toDelete)]

-----------------------------------------------------------------------------
(* The tables of Test_groupsDifferences, Test_usersDifferences and          *)
(* Test_groupsUsersDifferences: arguments and expected partitions.          *)

GroupTests ==
    LET g1  == Group("1", "name1", "1@mail.com")
        g2  == Group("2", "name2", "2@mail.com")
        g2n == Group("2", "name2", "22@mail.com")
        g3  == Group("3", "name3", "3@mail.com")
        g4  == Group("4", "name4", "4@mail.com")
        g11 == Group("11", "name1", "1@mail.com")
        none == Result(0, <<>>)
    IN  << [name |-> "empty",
            idp |-> Result(0, <<>>), state |-> Result(0, <<>>),
            wantCreate |-> none, wantUpdate |-> none, wantEqual |-> none,
            wantDelete |-> none],
           [name |-> "2 equals",
            idp |-> Result(2, <<g1, g2>>), state |-> Result(2, <<g1, g2>>),
            wantCreate |-> none, wantUpdate |-> none, wantEqual |-> Result(2, <<g1, g2>>),
            wantDelete |-> none],
           [name |-> "1 equals, 1 update",
            idp |-> Result(2, <<g1, g2n>>), state |-> Result(2, <<g1, g2>>),
            wantCreate |-> none, wantUpdate |-> Result(1, <<g2n>>),
            wantEqual |-> Result(1, <<g1>>), wantDelete |-> none],
           [name |-> "1 equals, 1 update, 1 delete",
            idp |-> Result(2, <<g1, g2n>>), state |-> Result(3, <<g1, g2, g3>>),
            wantCreate |-> none, wantUpdate |-> Result(1, <<g2n>>),
            wantEqual |-> Result(1, <<g1>>), wantDelete |-> Result(1, <<g3>>)],
           [name |-> "1 equals, 1 update, 1 delete, 1 create",
            idp |-> Result(4, <<g1, g2n, g4>>), state |-> Result(3, <<g1, g2, g3>>),
            wantCreate |-> Result(1, <<g4>>), wantUpdate |-> Result(1, <<g2n>>),
            wantEqual |-> Result(1, <<g1>>), wantDelete |-> Result(1, <<g3>>)],
           [name |-> "1 update, change the ID",
            idp |-> Result(1, <<g11>>), state |-> Result(1, <<g1>>),
            wantCreate |-> none, wantUpdate |-> Result(1, <<g11>>), wantEqual |-> none,
            wantDelete |-> none] >>

UserTests ==
    LET u1  == User("1", "john.doe@email.com", "john", "doe", "john doe", TRUE)
        u2  == User("2", "foo.bar@email.com", "foo", "bar", "foo bar", TRUE)
        u2n == User("2", "foo.bar@email.com", "foonew", "bar", "foonew bar", TRUE)
        u3  == User("3", "donato.ricupero@email.com", "donato", "ricupero",
                    "donato ricupero", TRUE)
        u4  == User("4", "don.nadie@email.com", "don", "nadie", "don nadie", TRUE)
        none == Result(0, <<>>)
    IN  << [name |-> "empty",
            idp |-> Result(0, <<>>), state |-> Result(0, <<>>),
            wantCreate |-> none, wantUpdate |-> none, wantEqual |-> none,
            wantDelete |-> none],
           [name |-> "2 equals",
            idp |-> Result(2, <<u1, u2>>), state |-> Result(2, <<u1, u2>>),
            wantCreate |-> none, wantUpdate |-> none, wantEqual |-> Result(2, <<u1, u2>>),
            wantDelete |-> none],
           [name |-> "1 equals, 1 update, 1 delete",
            idp |-> Result(2, <<u1, u2n>>), state |-> Result(2, <<u1, u2, u3>>),
            wantCreate |-> none, wantUpdate |-> Result(1, <<u2n>>),
            wantEqual |-> Result(1, <<u1>>), wantDelete |-> Result(1, <<u3>>)],
           [name |-> "1 equals, 1 update",
            idp |-> Result(2, <<u1, u2n>>), state |-> Result(2, <<u1, u2>>),
            wantCreate |-> none, wantUpdate |-> Result(1, <<u2n>>),
            wantEqual |-> Result(1, <<u1>>), wantDelete |-> none],
           [name |-> "1 equals, 1 update, 1 delete, 1 create",
            idp |-> Result(2, <<u1, u2n, u4>>), state |-> Result(2, <<u1, u2, u3>>),
            wantCreate |-> Result(1, <<u4>>), wantUpdate |-> Result(1, <<u2n>>),
            wantEqual |-> Result(1, <<u1>>), wantDelete |-> Result(1, <<u3>>)] >>

MembershipTests ==
    LET gr1 == Group("1", "group 1", "g.1@mail.com")
        gr2 == Group("2", "group 2", "g.2@mail.com")
        m1  == User("1", "u.1@mail.com", "user", "1", "", FALSE)
        m2  == User("2", "u.2@mail.com", "user", "2", "", FALSE)
        m3  == User("3", "u.3@mail.com", "user", "3", "", FALSE)
        none == Result(0, <<>>)
    IN  << [name |-> "empty",
            idp |-> Result(0, <<>>), state |-> Result(0, <<>>),
            wantCreate |-> none, wantEqual |-> none, wantDelete |-> none],
           [name |-> "2 equals",
            idp |-> Result(2, <<GroupUsers(2, gr1, <<m1, m2>>), GroupUsers(1, gr2, <<m1>>)>>),
            state |-> Result(2, <<GroupUsers(2, gr1, <<m1, m2>>), GroupUsers(1, gr2, <<m1>>)>>),
            wantCreate |-> none,
            wantEqual |-> Result(2, <<GroupUsers(2, gr1, <<m1, m2>>),
                                      GroupUsers(1, gr2, <<m1>>)>>),
            wantDelete |-> none],
           [name |-> "1 equals, 1 create, 1 delete",
            idp |-> Result(2, <<GroupUsers(2, gr1, <<m1, m2>>), GroupUsers(1, gr2, <<m1>>)>>),
            state |-> Result(2, <<GroupUsers(1, gr1, <<m1>>), GroupUsers(2, gr2, <<m1, m3>>)>>),
            wantCreate |-> Result(1, <<GroupUsers(1, gr1, <<m2>>)>>),
            wantEqual |-> Result(2, <<GroupUsers(1, gr1, <<m1>>), GroupUsers(1, gr2, <<m1>>)>>),
            wantDelete |-> Result(1, <<GroupUsers(1, gr2, <<m3>>)>>)] >>

\* What the loop of each test function checks for one row: every returned
\* partition is reflect.DeepEqual to the expected one.
GroupTestPasses(t) ==
    LET got == groupsDifferences(t.idp, t.state)
    IN  /\ got.create = t.wantCreate /\ got.update = t.wantUpdate
        /\ got.equal = t.wantEqual /\ got.delete = t.wantDelete

UserTestPasses(t) ==
    LET got == usersDifferences(t.idp, t.state)
    IN  /\ got.create = t.wantCreate /\ got.update = t.wantUpdate
        /\ got.equal = t.wantEqual /\ got.delete = t.wantDelete

MembershipTestPasses(t) ==
    LET got == groupsUsersDifferences(t.idp, t.state)
    IN  /\ got.create = t.wantCreate /\ got.equal = t.wantEqual
        /\ got.delete = t.wantDelete

-----------------------------------------------------------------------------
(* The snapshots the reconcilers are called with.                           *)

\* Groups: two names; next to the first ID and Email, one other ID and one
\* other Email, at most one of the two departing at a time (the changes the
\* tests make: "11" for "1", "22@mail.com" for "2@mail.com").
GroupIDs == {"1", "2"}
GroupNames == {"name1", "name2"}
GroupEmails == {"1@mail.com", "2@mail.com"}

GroupValues ==
    {g \in {Group(i, n, e) : i \in GroupIDs, n \in GroupNames, e \in GroupEmails} :
        ~(g.ID = "2" /\ g.Email = "2@mail.com")}

\* Users: two emails; an active user with the first ID, the same with the
\* other ID, and the same deactivated.
UserIDs == {"1", "2"}
UserEmails == {"john.doe@email.com", "foo.bar@email.com"}

UserValues ==
    {u \in {User(i, e, "john", "doe", "john doe", a) :
                i \in UserIDs, e \in UserEmails, a \in BOOLEAN} :
        ~(u.ID = "2" /\ ~u.Active)}

\* Memberships: two groups, each with no member, one member or two.
MemberSeqs ==
    LET m1 == User("1", "u.1@mail.com", "user", "1", "", FALSE)
        m2 == User("2", "u.2@mail.com", "user", "2", "", FALSE)
    IN  {<<>>, <<m1>>, <<m1, m2>>}

MembershipValues ==
    {GroupUsers(Len(ms), g, ms) :
        g \in {Group("1", "group 1", "g.1@mail.com"), Group("2", "group 2", "g.2@mail.com")},
        ms \in MemberSeqs}

\* A snapshot as the tests write it: no HashCode anywhere, Items as given.
Plain(seq) == Result(Len(seq), seq)

\* A snapshot whose Items disagrees with its Resources, as the idp argument
\* of "1 equals, 1 update, 1 delete, 1 create" (Items: 4 over three groups).
Miscounted(seq) == Result(Len(seq) + 1, seq)

\* A snapshot as SCIMProvider.GetGroups and GetUsers build it: every record
\* carries its hash code, and so does the aggregate.
HashedGroups(seq) ==
    WithHash("GroupsResult",
             Result(Len(seq), [k \in 1..Len(seq) |-> WithHash("Group", seq[k])]))

HashedUsers(seq) ==
    WithHash("UsersResult",
             Result(Len(seq), [k \in 1..Len(seq) |-> WithHash("User", seq[k])]))

\* A membership snapshot as SCIMProvider.GetUsersAndGroupsUsers builds it.
HashedGroupUsers(m) ==
    WithHash("GroupUsers",
             [m EXCEPT !.Group = WithHash("Group", m.Group),
                       !.Resources = [k \in 1..Len(m.Resources) |->
                                         WithHash("User", m.Resources[k])]])

HashedMemberships(seq) ==
    WithHash("GroupsUsersResult",
             Result(Len(seq), [k \in 1..Len(seq) |-> HashedGroupUsers(seq[k])]))

\* How the two arguments of a generated call are wrapped.
Modes == {"plain", "miscounted", "hashed"}

GroupPair(c, p, mode) ==
    CASE mode = "plain"      -> [idp |-> Plain(c), state |-> Plain(p)]
      [] mode = "miscounted" -> [idp |-> Miscounted(c), state |-> Plain(p)]
      [] mode = "hashed"     -> [idp |-> HashedGroups(c), state |-> HashedGroups(p)]

UserPair(c, p, mode) ==
    CASE mode = "plain"      -> [idp |-> Plain(c), state |-> Plain(p)]
      [] mode = "miscounted" -> [idp |-> Miscounted(c), state |-> Plain(p)]
      [] mode = "hashed"     -> [idp |-> HashedUsers(c), state |-> HashedUsers(p)]

MembershipPair(c, p, mode) ==
    CASE mode = "plain"      -> [idp |-> Plain(c), state |-> Plain(p)]
      [] mode = "miscounted" -> [idp |-> Miscounted(c), state |-> Plain(p)]
      [] mode = "hashed"     -> [idp |-> HashedMemberships(c), state |-> HashedMemberships(p)]

TestPair(t) == [idp |-> t.idp, state |-> t.state]

-----------------------------------------------------------------------------
(* The state machine: one call of one reconciler.                           *)

\* No reconciler has been called through the variables of this section.
CoreIdle ==
    /\ pc = "idle"
    /\ kind = "none"
    /\ idp = NilResult
    /\ state = NilResult
    /\ create = NilResult
    /\ update = NilResult
    /\ equal = NilResult
    /\ delete = NilResult

\* No goroutine runs a reconciler step by step.
RunIdle == schedule = "none" /\ procs = <<>> /\ frames = <<>>

\* No method of SCIMProvider has been called.
ProviderIdle ==
    scim = <<>> /\ called = "none" /\ returned = <<>> /\ handed = <<>> /\ issued = <<>>

AwsIdle == aws = <<>> /\ http = <<>>

SyncIdle == sync = <<>>

Init == CoreIdle /\ RunIdle /\ ProviderIdle /\ AwsIdle /\ SyncIdle

\* gotCreate, gotUpdate, gotEqual, gotDelete := groupsDifferences(idp, state)
GroupsCall(in) ==
    \E got \in {groupsDifferences(in.idp, in.state)} :
        /\ idp' = in.idp
        /\ state' = in.state
        /\ create' = got.create
        /\ update' = got.update
        /\ equal' = got.equal
        /\ delete' = got.delete
        /\ kind' = "groups"
        /\ pc' = "done"
        /\ UNCHANGED <<runVars, providerVars, awsVars, syncVars>>

GroupsDifferences ==
    /\ pc = "idle"
    /\ \/ \E k \in 1..Len(GroupTests) : GroupsCall(TestPair(GroupTests[k]))
       \/ \E c \in SeqsUpTo(GroupValues, MaxLen), p \in SeqsUpTo(GroupValues, MaxLen),
             mode \in Modes :
             \E in \in {GroupPair(c, p, mode)} : GroupsCall(in)

\* gotCreate, gotUpdate, gotEqual, gotDelete := usersDifferences(idp, state)
UsersCall(in) ==
    \E got \in {usersDifferences(in.idp, in.state)} :
        /\ idp' = in.idp
        /\ state' = in.state
        /\ create' = got.create
        /\ update' = got.update
        /\ equal' = got.equal
        /\ delete' = got.delete
        /\ kind' = "users"
        /\ pc' = "done"
        /\ UNCHANGED <<runVars, providerVars, awsVars, syncVars>>

UsersDifferences ==
    /\ pc = "idle"
    /\ \/ \E k \in 1..Len(UserTests) : UsersCall(TestPair(UserTests[k]))
       \/ \E c \in SeqsUpTo(UserValues, MaxLen), p \in SeqsUpTo(UserValues, MaxLen),
             mode \in Modes :
             \E in \in {UserPair(c, p, mode)} : UsersCall(in)

\* gotCreate, gotEqual, gotDelete := groupsUsersDifferences(idp, state)
GroupsUsersCall(in) ==
    \E got \in {groupsUsersDifferences(in.idp, in.state)} :
        /\ idp' = in.idp
        /\ state' = in.state
        /\ create' = got.create
        /\ equal' = got.equal
        /\ delete' = got.delete
        /\ update' = update
        /\ kind' = "members"
        /\ pc' = "done"
        /\ UNCHANGED <<runVars, providerVars, awsVars, syncVars>>

GroupsUsersDifferences ==
    /\ pc = "idle"
    /\ \/ \E k \in 1..Len(MembershipTests) : GroupsUsersCall(TestPair(MembershipTests[k]))
       \/ \E c \in SeqsUpTo(MembershipValues, MaxLen),
             p \in SeqsUpTo(MembershipValues, MaxLen),
             mode \in Modes :
             \E in \in {MembershipPair(c, p, mode)} : GroupsUsersCall(in)

Next == GroupsDifferences \/ UsersDifferences \/ GroupsUsersDifferences

Spec == Init /\ [][Next]_vars

\* Every row of the test tables passes on the operators above.
TestsPass ==
    /\ \A k \in 1..Len(GroupTests) : GroupTestPasses(GroupTests[k])
    /\ \A k \in 1..Len(UserTests) : UserTestPasses(UserTests[k])
    /\ \A k \in 1..Len(MembershipTests) : MembershipTestPasses(MembershipTests[k])

-----------------------------------------------------------------------------
(* The reconcilers run one loop iteration at a time: called one after the   *)
(* other, as the loops of the three test functions call them, or side by    *)
(* side, one goroutine per reconciler.                                      *)

Procs == {"groups", "users", "members"}

\* Most calls made one after the other.
MaxCalls == 2

\* The arguments a reconciler is called with: the rows of its test table.
ProcInputs(p) ==
    CASE p = "groups" -> {TestPair(GroupTests[k]) : k \in 1..Len(GroupTests)}
      [] p = "users" -> {TestPair(UserTests[k]) : k \in 1..Len(UserTests)}
      [] p = "members" -> {TestPair(MembershipTests[k]) : k \in 1..Len(MembershipTests)}

\* The lists a call fills; groupsUsersDifferences leaves toUpdate alone.
EmptyFrame == [toCreate |-> <<>>, toUpdate |-> <<>>, toEqual |-> <<>>, toDelete |-> <<>>]

\* The lists are local variables of the function: every call in progress
\* has its own.
\* Lists declared at package level: one set for all callers.
SlotShared(p) == "groups"

Slot(p) == p

\* The lists are made anew at the top of the function.
\* Lists that outlive the call.
KeepFrame(old) == old

FreshFrame(old) == EmptyFrame

NilArgs == [idp |-> NilResult, state |-> NilResult]

NilGot == [create |-> NilResult, update |-> NilResult, equal |-> NilResult,
           delete |-> NilResult]

NoCall == [in |-> NilArgs, out |-> NilGot]

\* pc: "idle", "current" (the loop over idp.Resources), "previous" (the
\* loop over state.Resources), "done"; args: the two arguments; passed:
\* what the caller passed; pos: the loop index; got: what the call
\* returned; last: arguments and results of the call before.
IdleProc ==
    [pc |-> "idle", args |-> NilArgs, passed |-> NilArgs, pos |-> 0, calls |-> 0,
     got |-> NilGot, last |-> NoCall]

\* One iteration of the loop over the current snapshot.
ClassifyCurrent(p, f, a, n) ==
    IF p = "members"
        THEN ScanMemberships(<<a.idp.Resources[n]>>, a.state.Resources, f)
    ELSE ScanCurrent(p, <<a.idp.Resources[n]>>, a.state.Resources, f)

\* One iteration of the loop over the previous snapshot.
SweepPrevious(p, f, a, n) ==
    [f EXCEPT !.toDelete =
        IF p = "members"
            THEN ScanLeftovers(<<a.state.Resources[n]>>, a.idp.Resources, @)
        ELSE ScanPrevious(p, <<a.state.Resources[n]>>, a.idp.Resources, @)]

\* The return statement.
ReturnOf(p, f) ==
    [create |-> Partition(f.toCreate),
     update |-> IF p = "members" THEN NilResult ELSE Partition(f.toUpdate),
     equal |-> Partition(f.toEqual),
     delete |-> Partition(f.toDelete)]

\* The reconciler run alone, from call to return.
Alone(p, a) ==
    CASE p = "groups" -> groupsDifferences(a.idp, a.state)
      [] p = "users" -> usersDifferences(a.idp, a.state)
      [] p = "members" ->
            LET got == groupsUsersDifferences(a.idp, a.state)
            IN  [create |-> got.create, update |-> NilResult, equal |-> got.equal,
                 delete |-> got.delete]

InFlight(p) == procs[p].pc \in {"current", "previous"}

TotalCalls == procs["groups"].calls + procs["users"].calls + procs["members"].calls

\* A test loop makes its next call when the one before has returned; a
\* goroutine makes its one call whenever it is scheduled.
CanCall(p) ==
    \/ schedule = "goroutines" /\ procs[p].pc = "idle"
    \/ /\ schedule = "loop"
       /\ \A q \in Procs : ~InFlight(q)
       /\ TotalCalls < MaxCalls

RunInit ==
    /\ CoreIdle /\ ProviderIdle /\ AwsIdle /\ SyncIdle
    /\ schedule \in {"loop", "goroutines"}
    /\ procs = [p \in Procs |-> IdleProc]
    /\ frames = [p \in Procs |-> EmptyFrame]

\* The call: the arguments are bound and the lists made.
Call(p) ==
    /\ CanCall(p)
    /\ \E in \in ProcInputs(p) :
          procs' = [procs EXCEPT ![p] =
                       [pc |-> "current", args |-> in, passed |-> in, pos |-> 1,
                        calls |-> @.calls + 1, got |-> NilGot,
                        last |-> IF @.calls > 0 THEN [in |-> @.passed, out |-> @.got]
                                 ELSE NoCall]]
    /\ frames' = [frames EXCEPT ![Slot(p)] = FreshFrame(@)]
    /\ UNCHANGED <<schedule, coreVars, providerVars, awsVars, syncVars>>

\* for _, g := range idp.Resources { ... }
StepCurrent(p) ==
    /\ procs[p].pc = "current"
    /\ procs[p].pos <= Len(procs[p].args.idp.Resources)
    /\ frames' = [frames EXCEPT ![Slot(p)] =
                     ClassifyCurrent(p, @, procs[p].args, procs[p].pos)]
    /\ procs' = [procs EXCEPT ![p].pos = @ + 1]
    /\ UNCHANGED <<schedule, coreVars, providerVars, awsVars, syncVars>>

\* The loop over the current snapshot is over.
EndCurrent(p) ==
    /\ procs[p].pc = "current"
    /\ procs[p].pos > Len(procs[p].args.idp.Resources)
    /\ procs' = [procs EXCEPT ![p].pc = "previous", ![p].pos = 1]
    /\ UNCHANGED <<schedule, frames, coreVars, providerVars, awsVars, syncVars>>

\* for _, g := range state.Resources { ... }
StepPrevious(p) ==
    /\ procs[p].pc = "previous"
    /\ procs[p].pos <= Len(procs[p].args.state.Resources)
    /\ frames' = [frames EXCEPT ![Slot(p)] =
                     SweepPrevious(p, @, procs[p].args, procs[p].pos)]
    /\ procs' = [procs EXCEPT ![p].pos = @ + 1]
    /\ UNCHANGED <<schedule, coreVars, providerVars, awsVars, syncVars>>

\* return create, update, equal, delete
Return(p) ==
    /\ procs[p].pc = "previous"
    /\ procs[p].pos > Len(procs[p].args.state.Resources)
    /\ procs' = [procs EXCEPT ![p].pc = "done",
                              ![p].got = ReturnOf(p, frames[Slot(p)])]
    /\ UNCHANGED <<schedule, frames, coreVars, providerVars, awsVars, syncVars>>

RunNext ==
    \E p \in Procs :
        \/ Call(p)
        \/ StepCurrent(p)
        \/ EndCurrent(p)
        \/ StepPrevious(p)
        \/ Return(p)

RunSpec == RunInit /\ [][RunNext]_vars

-----------------------------------------------------------------------------
(* SCIMProvider: the snapshots of the target side, built from the answers   *)
(* of the AWS SCIM API (s.scim.ListGroups, s.scim.ListUsers).               *)

\* An element of GroupsResponse.Resources and of UsersResponse.Resources.
ApiGroup(id, name) == [ID |-> id, DisplayName |-> name]

ApiUser(id, emails) ==
    [ID |-> id, Name |-> [FamilyName |-> "user", GivenName |-> id], DisplayName |-> "",
     Active |-> TRUE, Emails |-> emails]

\* Lists of at most n elements of S with no ID twice.
DistinctSeqs(S, n) ==
    {s \in SeqsUpTo(S, n) : \A a, b \in 1..Len(s) : s[a].ID = s[b].ID => a = b}

ApiGroupLists ==
    DistinctSeqs({ApiGroup(i, n) : i \in {"g1", "g2"}, n \in {"name1", "name2"}}, MaxLen)

\* Two users with an address and one that comes without any.
ApiUserLists ==
    DistinctSeqs({ApiUser("u1", <<"u.1@mail.com">>), ApiUser("u2", <<"u.2@mail.com">>),
                  ApiUser("u2", <<>>)}, MaxLen)

IDsOf(seq) == {seq[k].ID : k \in 1..Len(seq)}

\* The answer of ListGroups(ctx, `members eq "uid"`): the groups of the
\* list that have the user as a member, in the order of the list.
RECURSIVE GroupsOfMember(_, _, _)
GroupsOfMember(groups, members, uid) ==
    IF groups = <<>> THEN <<>>
    ELSE (IF uid \in members[Head(groups).ID] THEN <<Head(groups)>> ELSE <<>>)
             \o GroupsOfMember(Tail(groups), members, uid)

\* The model.Group and the model.User the provider builds from an element
\* of an answer, before their HashCode is set; a group gets no Email.
ToGroup(g) == Group(g.ID, g.DisplayName, "")

ToUser(u) ==
    User(u.ID, u.Emails[1], u.Name.FamilyName, u.Name.GivenName, u.DisplayName, u.Active)

\* The members of the group with the last user of the list first.
RECURSIVE UsersOfGroupReversed(_, _, _)
UsersOfGroupReversed(users, members, gid) ==
    IF users = <<>> THEN <<>>
    ELSE UsersOfGroupReversed(Tail(users), members, gid)
             \o (IF Head(users).ID \in members[gid] THEN <<ToUser(Head(users))>> ELSE <<>>)

\* groupsIDUsers[gid]: the users appended for the group, in the order of
\* usersResult.Resources.
RECURSIVE UsersOfGroup(_, _, _)
UsersOfGroup(users, members, gid) ==
    IF users = <<>> THEN <<>>
    ELSE (IF Head(users).ID \in members[gid] THEN <<ToUser(Head(users))>> ELSE <<>>)
             \o UsersOfGroup(Tail(users), members, gid)

\* The orders in which a range over a map of these keys can visit them.
Orders(keys) ==
    {o \in [1..Cardinality(keys) -> keys] : \A a, b \in DOMAIN o : o[a] = o[b] => a = b}

NoReturn ==
    [err |-> FALSE, panic |-> FALSE, groups |-> NilResult, users |-> NilResult,
     groupsUsers |-> NilResult, hashes |-> <<"", "">>]

\* return nil, err (and return nil, nil, err)
ErrReturn == [NoReturn EXCEPT !.err = TRUE]

\* user.Emails[0] on an empty slice: index out of range
PanicReturn == [NoReturn EXCEPT !.panic = TRUE]

\* A call on s.scim: the method and the filter it is given.
ApiCall(op, filter) == [op |-> op, filter |-> filter]

\* The ListGroups queries of the loop over usersResult.Resources, one per
\* user, up to the n-th user, each with the filter
\* fmt.Sprintf("members eq \"%s\"", user.ID).
MemberQueries(users, n) ==
    [k \in 1..n |-> ApiCall("ListGroups", "members eq \"" \o users[k].ID \o "\"")]

ProviderInit ==
    /\ CoreIdle /\ RunIdle /\ AwsIdle /\ SyncIdle
    /\ called = "none"
    /\ returned = NoReturn
    /\ handed = NilResult
    /\ issued = <<>>
    /\ \E gs \in ApiGroupLists, us \in ApiUserLists :
          \E ms \in [IDsOf(gs) -> SUBSET IDsOf(us)],
             fails \in {"none", "ListUsers", "ListGroups"} :
              scim = [groups |-> gs, users |-> us, members |-> ms, fails |-> fails]

\* What GetUsers returns.
GetUsersReturn ==
    IF scim.fails = "ListUsers" THEN ErrReturn
    ELSE IF \E k \in 1..Len(scim.users) : scim.users[k].Emails = <<>> THEN PanicReturn
    ELSE [NoReturn EXCEPT
             !.users = HashedUsers([k \in 1..Len(scim.users) |-> ToUser(scim.users[k])])]

GetGroups ==
    /\ called = "none"
    /\ called' = "GetGroups"
    /\ returned' =
          IF scim.fails = "ListGroups" THEN ErrReturn
          ELSE [NoReturn EXCEPT
                   !.groups = HashedGroups([k \in 1..Len(scim.groups) |->
                                               ToGroup(scim.groups[k])])]
    /\ issued' = <<ApiCall("ListGroups", "")>>
    /\ UNCHANGED <<scim, handed, coreVars, runVars, awsVars, syncVars>>

GetUsers ==
    /\ called = "none"
    /\ called' = "GetUsers"
    /\ returned' = GetUsersReturn
    /\ issued' = <<ApiCall("ListUsers", "")>>
    /\ UNCHANGED <<scim, handed, coreVars, runVars, awsVars, syncVars>>

\* The groups argument is not read.  usersResult is hashed a second time
\* after GetUsers returned it hashed; the range over groupsIDUsers visits
\* the group ids in any order.
GetUsersAndGroupsUsers ==
    /\ called = "none"
    /\ called' = "GetUsersAndGroupsUsers"
    /\ \E got \in {GetUsersReturn} :
          IF got.err \/ got.panic
          THEN returned' = got /\ issued' = <<ApiCall("ListUsers", "")>>
          ELSE IF scim.users # <<>> /\ scim.fails = "ListGroups"
          THEN /\ returned' = ErrReturn
               /\ issued' = <<ApiCall("ListUsers", "")>> \o MemberQueries(scim.users, 1)
          ELSE LET gids == UNION {IDsOf(GroupsOfMember(scim.groups, scim.members,
                                                       scim.users[k].ID)) :
                                      k \in 1..Len(scim.users)}
                   data == [g \in gids |->
                               ToGroup(CHOOSE x \in Range(scim.groups) : x.ID = g)]
                   users == WithHash("UsersResult", got.users)
               IN  \E order \in Orders(gids) :
                       /\ issued' = <<ApiCall("ListUsers", "")>>
                                        \o MemberQueries(scim.users, Len(scim.users))
                       /\ returned' =
                           [got EXCEPT
                               !.users = users,
                               !.groupsUsers =
                                   HashedMemberships(
                                       [k \in 1..Len(order) |->
                                           LET us == UsersOfGroup(scim.users, scim.members,
                                                                  order[k])
                                           IN  GroupUsers(Len(us), data[order[k]], us)]),
                               !.hashes = <<got.users.HashCode, users.HashCode>>]
    /\ UNCHANGED <<scim, handed, coreVars, runVars, awsVars, syncVars>>

ProviderNext == GetGroups \/ GetUsers \/ GetUsersAndGroupsUsers

ProviderSpec == ProviderInit /\ [][ProviderNext]_vars

-----------------------------------------------------------------------------
(* SCIMProvider: the methods that are handed a partition of a reconciler.   *)
(* Each of them returns nil at once; s.scim, whose interface has ListUsers  *)
(* and ListGroups only, is not called and is taken to be an empty directory.*)

\* The partitions the methods are handed: a nil pointer, or an aggregate as
\* the reconcilers return it.
GroupsPartitions == {NilResult} \cup {Partition(l) : l \in SeqsUpTo(GroupValues, MaxLen)}

UsersPartitions == {NilResult} \cup {Partition(l) : l \in SeqsUpTo(UserValues, MaxLen)}

MembersPartitions ==
    {NilResult} \cup {Partition(l) : l \in SeqsUpTo(MembershipValues, MaxLen)}

ProvisionInit ==
    /\ CoreIdle /\ RunIdle /\ AwsIdle /\ SyncIdle
    /\ called = "none"
    /\ returned = NoReturn
    /\ handed = NilResult
    /\ issued = <<>>
    /\ \E fails \in {"none", "ListUsers", "ListGroups"} :
          scim = [groups |-> <<>>, users |-> <<>>, members |-> <<>>, fails |-> fails]

\* func (s *SCIMProvider) <method>(ctx, arg) error { return nil }
ReturnNil(method, arg) ==
    /\ called = "none"
    /\ called' = method
    /\ handed' = arg
    /\ issued' = <<>>
    /\ returned' = NoReturn
    /\ UNCHANGED <<scim, coreVars, runVars, awsVars, syncVars>>

CreateGroups == \E gr \in GroupsPartitions : ReturnNil("CreateGroups", gr)

CreateUsers == \E ur \in UsersPartitions : ReturnNil("CreateUsers", ur)

CreateMembers == \E ur \in MembersPartitions : ReturnNil("CreateMembers", ur)

UpdateGroups == \E gr \in GroupsPartitions : ReturnNil("UpdateGroups", gr)

UpdateUsers == \E ur \in UsersPartitions : ReturnNil("UpdateUsers", ur)

DeleteGroups == \E gr \in GroupsPartitions : ReturnNil("DeleteGroups", gr)

DeleteUsers == \E ur \in UsersPartitions : ReturnNil("DeleteUsers", ur)

DeleteMembers == \E ur \in MembersPartitions : ReturnNil("DeleteMembers", ur)

ProvisionNext ==
    \/ CreateGroups
    \/ CreateUsers
    \/ CreateMembers
    \/ UpdateGroups
    \/ UpdateUsers
    \/ DeleteGroups
    \/ DeleteUsers
    \/ DeleteMembers

ProvisionSpec == ProvisionInit /\ [][ProvisionNext]_vars

-----------------------------------------------------------------------------
(* AWSSCIMService (src/pkg/aws/scim.go): the client of the AWS SSO SCIM     *)
(* API.  NewSCIMService builds the service, then one of its methods runs    *)
(* against an HTTP client whose answer to Do is fixed from the start.       *)

\* Most addresses a generated user request carries.
MaxEmails == 2

\* A URL keeps its path as the list of its segments; Slash tells a trailing
\* "/" and Query holds the (key, value) pairs of the query string.
NoURL == [Host |-> "", Path |-> <<>>, Slash |-> FALSE, Query |-> <<>>]

URL(host, path, slash) == [NoURL EXCEPT !.Host = host, !.Path = path, !.Slash = slash]

\* The strings the service is built with: none, one that net/url refuses
\* (an invalid escape in the host), and three it accepts.
UrlStrings ==
    {"", "https://%%testing.com", "https://testing.com", "https://testing.com/scim/v2",
     "https://testing.com/scim/v2/"}

\* url.Parse that takes every string.
UrlParseLenient(str) == [err |-> FALSE, url |-> URL(str, <<>>, FALSE)]

\* url.Parse on those strings.
UrlParse(str) ==
    CASE str = "https://testing.com" ->
             [err |-> FALSE, url |-> URL("testing.com", <<>>, FALSE)]
      [] str = "https://testing.com/scim/v2" ->
             [err |-> FALSE, url |-> URL("testing.com", <<"scim", "v2">>, FALSE)]
      [] str = "https://testing.com/scim/v2/" ->
             [err |-> FALSE, url |-> URL("testing.com", <<"scim", "v2">>, TRUE)]
      [] OTHER -> [err |-> TRUE, url |-> NoURL]

\* path.Clean on a rooted path, segment by segment: an empty segment and
\* "." are dropped, ".." drops the segment before it.
RECURSIVE Clean(_, _)
Clean(acc, segs) ==
    IF segs = <<>> THEN acc
    ELSE Clean(CASE Head(segs) \in {"", "."} -> acc
                 [] Head(segs) = ".." -> SubSeq(acc, 1, Len(acc) - 1)
                 [] OTHER -> Append(acc, Head(segs)),
               Tail(segs))

\* path.Join(base, elems)
PathJoin(base, elems) == Clean(<<>>, base \o elems)

\* The *AWSSCIMService; IsNil is the nil pointer.
NilService ==
    [IsNil |-> TRUE, httpClient |-> "nil", url |-> NoURL, UserAgent |-> "",
     bearerToken |-> ""]

\* The *http.Response of the client; Decodes tells whether its body is the
\* JSON document the caller decodes it into.
NilResponse == [IsNil |-> TRUE, StatusCode |-> 0, Decodes |-> FALSE]

Response(code, decodes) == [IsNil |-> FALSE, StatusCode |-> code, Decodes |-> decodes]

\* What Do returns: an error and no response, or a response with or
\* without an error (a client that returns neither is not considered).
\* The status codes are those around the two limits, and 204.
Answers ==
    {[err |-> TRUE, resp |-> NilResponse]}
        \cup {[err |-> e, resp |-> Response(c, d)] :
                 e \in BOOLEAN, c \in {199, 200, 204, 399, 400}, d \in BOOLEAN}

\* What a method returns: err is "" for nil, the name of the sentinel, or
\* the message of the innermost error that the method wraps; value tells
\* a non-nil first result (the service, the decoded response); resp is the
\* *http.Response of do.
AwsNoReturn == [err |-> "", panic |-> FALSE, value |-> FALSE, resp |-> NilResponse]

Fail(err) == [AwsNoReturn EXCEPT !.err = err]

AwsInit ==
    /\ CoreIdle /\ RunIdle /\ SyncIdle
    /\ scim = <<>>
    /\ called = "none"
    /\ returned = AwsNoReturn
    /\ handed = <<>>
    /\ issued = <<>>
    /\ aws = NilService
    /\ http \in Answers

NewSCIMService ==
    /\ called = "none"
    /\ \E httpClient \in {"nil", "given"}, urlStr \in UrlStrings, token \in {"MyToken", ""} :
          /\ handed' = [httpClient |-> httpClient, urlStr |-> urlStr, token |-> token]
          /\ \E parsed \in {UrlParse(urlStr)} :
                IF urlStr = ""
                THEN aws' = NilService /\ returned' = Fail("ErrURLEmpty")
                ELSE IF parsed.err
                THEN aws' = NilService /\ returned' = Fail("aws: error parsing url")
                ELSE /\ aws' = [IsNil |-> FALSE,
                                httpClient |-> IF httpClient = "nil" THEN "default"
                                               ELSE httpClient,
                                url |-> parsed.url,
                                UserAgent |-> "",
                                bearerToken |-> token]
                     /\ returned' = [AwsNoReturn EXCEPT !.value = TRUE]
    /\ called' = "NewSCIMService"
    /\ issued' = <<>>
    /\ UNCHANGED <<http, scim, coreVars, runVars, syncVars>>

\* The service is built and none of its methods has run.
Ready == called = "NewSCIMService" /\ ~aws.IsNil

\* reqUrl, parsed again from s.url.String(), with its path joined.
ReqURL(elems, query) ==
    [aws.url EXCEPT !.Path = PathJoin(aws.url.Path, elems), !.Slash = FALSE,
                    !.Query = query]

\* A request as newRequest builds it; body is <<>> for a nil body and holds
\* the value that is encoded otherwise.
newRequest(method, u, body) ==
    [Method |-> method, URL |-> u, Body |-> body,
     Header |-> [ContentType |-> IF body # <<>> THEN "application/json" ELSE "",
                 Accept |-> "application/json",
                 UserAgent |-> aws.UserAgent,
                 Authorization |-> ""]]

\* checkHTTPResponse that lets the status 400 through.
checkHTTPResponseAbove400(r) ==
    IF r.StatusCode < 200 \/ r.StatusCode > 400 THEN "aws: error, code" ELSE ""

checkHTTPResponse(r) ==
    IF r.StatusCode < 200 \/ r.StatusCode >= 400 THEN "aws: error, code" ELSE ""

\* The request as s.httpClient.Do receives it from do.
Sent(req) == [req EXCEPT !.Header.Authorization = "Bearer " \o aws.bearerToken]

\* What do returns.
DoReturn ==
    IF http.err THEN Fail("aws: error sending request")
    ELSE IF checkHTTPResponse(http.resp) # "" THEN Fail(checkHTTPResponse(http.resp))
    ELSE [AwsNoReturn EXCEPT !.resp = http.resp]

\* The requests that do is handed directly, as httptest.NewRequest makes
\* them: no header set.
PlainRequests ==
    {[Method |-> m, URL |-> URL("testing.com", <<>>, FALSE), Body |-> <<>>,
      Header |-> [ContentType |-> "", Accept |-> "", UserAgent |-> "", Authorization |-> a]] :
        m \in {"GET", "POST"}, a \in {"", "Bearer other"}}

do ==
    /\ Ready
    /\ \E req \in PlainRequests :
          /\ handed' = req
          /\ issued' = <<Sent(req)>>
    /\ called' = "do"
    /\ returned' = DoReturn
    /\ UNCHANGED <<scim, coreVars, runVars, awsVars, syncVars>>

\* A method that returns its error before any request is made.
Refuse(method, arg, err) ==
    /\ called' = method
    /\ handed' = arg
    /\ issued' = <<>>
    /\ returned' = Fail(err)
    /\ UNCHANGED <<scim, coreVars, runVars, awsVars, syncVars>>

\* A method that stops on an index out of range before any request is made.
Panic(method, arg) ==
    /\ called' = method
    /\ handed' = arg
    /\ issued' = <<>>
    /\ returned' = [AwsNoReturn EXCEPT !.panic = TRUE]
    /\ UNCHANGED <<scim, coreVars, runVars, awsVars, syncVars>>

\* A method that makes its request, sends it with do and, if decode is set,
\* decodes the body of the response into its result.
Exchange(method, arg, req, decode) ==
    /\ called' = method
    /\ handed' = arg
    /\ issued' = <<Sent(req)>>
    /\ returned' =
          IF DoReturn.err # "" THEN Fail(DoReturn.err)
          ELSE IF ~decode THEN AwsNoReturn
          ELSE IF ~http.resp.Decodes THEN Fail("aws: error decoding response body")
          ELSE [AwsNoReturn EXCEPT !.value = TRUE]
    /\ UNCHANGED <<scim, coreVars, runVars, awsVars, syncVars>>

\* A *CreateUserRequest or *PutUserRequest; IsNil is the nil pointer.
UserRequest(id, display, given, family, emails) ==
    [IsNil |-> FALSE, ID |-> id, DisplayName |-> display,
     Name |-> [GivenName |-> given, FamilyName |-> family], Emails |-> emails]

\* A nil request, and the requests with or without each of the names and
\* with up to MaxEmails addresses.
UserRequests(ids) ==
    {[UserRequest("", "", "", "", <<>>) EXCEPT !.IsNil = TRUE]}
        \cup {UserRequest(id, d, g, f, e) :
                 id \in ids, d \in {"", "user 1"}, g \in {"", "test"}, f \in {"", "1"},
                 e \in SeqsUpTo({[Value |-> "user.1@mail.com", Type |-> "work",
                                   Primary |-> FALSE]}, MaxEmails)}

\* The checks of the addresses before those of the names.
ValidateUserEmailsFirst(usr, empty) ==
    IF usr.IsNil THEN empty
    ELSE IF Len(usr.Emails) > 1 THEN "ErrEmailsTooMany"
    ELSE IF usr.DisplayName = "" THEN "ErrDisplayNameEmpty"
    ELSE IF usr.Name.GivenName = "" THEN "ErrGivenNameEmpty"
    ELSE IF usr.Name.FamilyName = "" THEN "ErrFamilyNameEmpty"
    ELSE ""

\* The checks that CreateUser and PutUser start with, in their order: the
\* sentinel of the first one that fails, "" when all pass.
ValidateUser(usr, empty) ==
    IF usr.IsNil THEN empty
    ELSE IF usr.DisplayName = "" THEN "ErrDisplayNameEmpty"
    ELSE IF usr.Name.GivenName = "" THEN "ErrGivenNameEmpty"
    ELSE IF usr.Name.FamilyName = "" THEN "ErrFamilyNameEmpty"
    ELSE IF Len(usr.Emails) > 1 THEN "ErrEmailsTooMany"
    ELSE ""

CreateUser ==
    /\ Ready
    /\ \E usr \in UserRequests({"1"}) :
          \E err \in {ValidateUser(usr, "ErrCreateUserRequestEmpty")} :
              IF err # "" THEN Refuse("CreateUser", usr, err)
              ELSE IF usr.Emails = <<>> THEN Panic("CreateUser", usr)
              ELSE Exchange("CreateUser", usr,
                            newRequest("POST", ReqURL(<<"Users">>, <<>>),
                                       <<[usr EXCEPT !.Emails[1].Primary = TRUE]>>),
                            TRUE)

\* The ids a method is called with: none, or one the service assigned.
IDs == {"", "1", "2"}

DeleteUser ==
    /\ Ready
    /\ \E id \in IDs :
          IF id = "" THEN Refuse("DeleteUser", id, "ErrUserIDEmpty")
          ELSE Exchange("DeleteUser", id,
                        newRequest("PATCH", ReqURL(<<"Users", id>>, <<>>), <<>>), FALSE)

Filters == {"", "displayName eq \"a\""}

\* reqUrl.RawQuery of a list request.
FilterQuery(filter) == IF filter # "" THEN <<<<"filter", filter>>>> ELSE <<>>

ListUsers ==
    /\ Ready
    /\ \E filter \in Filters :
          Exchange("ListUsers", filter,
                   newRequest("GET", ReqURL(<<"Users">>, FilterQuery(filter)), <<>>), TRUE)

\* A *PatchUserRequest or *PatchGroupRequest: the id of its User or Group
\* and its Patch.
PatchRequest(id) == [IsNil |-> FALSE, ID |-> id, Patch |-> "patch"]

PatchRequests == {[PatchRequest("") EXCEPT !.IsNil = TRUE]} \cup {PatchRequest(id) : id \in IDs}

PatchUser ==
    /\ Ready
    /\ \E pur \in PatchRequests :
          IF pur.IsNil THEN Refuse("PatchUser", pur, "ErrPatchUserRequestEmpty")
          ELSE IF pur.ID = "" THEN Refuse("PatchUser", pur, "ErrUserIDEmpty")
          ELSE Exchange("PatchUser", pur,
                        newRequest("PATCH", ReqURL(<<"Groups", pur.ID>>, <<>>),
                                   <<pur.Patch>>),
                        FALSE)

PutUser ==
    /\ Ready
    /\ \E usr \in UserRequests({"", "1"}) :
          \E err \in {ValidateUser(usr, "ErrPutUserRequestEmpty")} :
              IF err # "" THEN Refuse("PutUser", usr, err)
              ELSE Exchange("PutUser", usr,
                            newRequest("PUT", ReqURL(<<"Users", usr.ID>>, <<>>), <<usr>>),
                            TRUE)

ListGroups ==
    /\ Ready
    /\ \E filter \in Filters :
          Exchange("ListGroups", filter,
                   newRequest("GET", ReqURL(<<"Groups">>, FilterQuery(filter)), <<>>), TRUE)

\* A *CreateGroupRequest.
GroupRequest(display) == [IsNil |-> FALSE, DisplayName |-> display]

CreateGroup ==
    /\ Ready
    /\ \E g \in {[GroupRequest("") EXCEPT !.IsNil = TRUE], GroupRequest(""),
                GroupRequest("group 1")} :
          IF g.IsNil THEN Refuse("CreateGroup", g, "ErrCreateGroupRequestEmpty")
          ELSE IF g.DisplayName = "" THEN Refuse("CreateGroup", g, "ErrDisplayNameEmpty")
          ELSE Exchange("CreateGroup", g,
                        newRequest("POST", ReqURL(<<"Groups">>, <<>>), <<g>>), TRUE)

DeleteGroup ==
    /\ Ready
    /\ \E id \in IDs :
          IF id = "" THEN Refuse("DeleteGroup", id, "ErrGroupIDEmpty")
          ELSE Exchange("DeleteGroup", id,
                        newRequest("PATCH", ReqURL(<<"Groups", id>>, <<>>), <<>>), FALSE)

PatchGroup ==
    /\ Ready
    /\ \E pgr \in PatchRequests :
          IF pgr.IsNil THEN Refuse("PatchGroup", pgr, "ErrPatchGroupRequestEmpty")
          ELSE IF pgr.ID = "" THEN Refuse("PatchGroup", pgr, "ErrGroupIDEmpty")
          ELSE Exchange("PatchGroup", pgr,
                        newRequest("PATCH", ReqURL(<<"Groups", pgr.ID>>, <<>>),
                                   <<pgr.Patch>>),
                        FALSE)

ServiceProviderConfig ==
    /\ Ready
    /\ Exchange("ServiceProviderConfig", <<>>,
                newRequest("GET", ReqURL(<<"ServiceProviderConfig">>, <<>>), <<>>), TRUE)

AwsNext ==
    \/ NewSCIMService
    \/ do
    \/ CreateUser
    \/ DeleteUser
    \/ ListUsers
    \/ PatchUser
    \/ PutUser
    \/ ListGroups
    \/ CreateGroup
    \/ DeleteGroup
    \/ PatchGroup
    \/ ServiceProviderConfig

AwsSpec == AwsInit /\ [][AwsNext]_vars

-----------------------------------------------------------------------------
(* The sync service (package sync).  Its source is not among the files;    *)
(* its test (src/unnamed/part_002) is.  NewSyncService is taken on the two  *)
(* pairs of collaborators that the test builds it with.  One run of         *)
(* SyncGroupsAndUsers makes the calls that the test expects of it, in an    *)
(* order that the test leaves open, and ends at the first call that fails   *)
(* (section 7 of the design).                                               *)

\* A call on a collaborator: the identity provider or the SCIM service.
SyncCall(on, op) == [on |-> on, op |-> op]

\* A run that never calls DeleteUsers.
SyncCallsNoDeleteUsers ==
    {SyncCall("provider", "GetGroups"), SyncCall("provider", "GetUsers"),
     SyncCall("scim", "CreateOrUpdateGroups"), SyncCall("scim", "CreateOrUpdateUsers"),
     SyncCall("scim", "DeleteGroups")}

\* The calls of one run.
SyncCalls ==
    {SyncCall("provider", "GetGroups"), SyncCall("provider", "GetUsers"),
     SyncCall("scim", "CreateOrUpdateGroups"), SyncCall("scim", "CreateOrUpdateUsers"),
     SyncCall("scim", "DeleteGroups"), SyncCall("scim", "DeleteUsers")}

\* What NewSyncService and SyncGroupsAndUsers return.  The service in sync
\* is nil until NewSyncService built it; its fails names the call that the
\* collaborator answers with an error, "none" when all succeed.
SyncReturn(err, value) == [err |-> err, value |-> value]

SyncInit ==
    /\ CoreIdle /\ RunIdle /\ AwsIdle
    /\ scim = <<>>
    /\ called = "none"
    /\ returned = SyncReturn(FALSE, FALSE)
    /\ handed = <<>>
    /\ issued = <<>>
    /\ \E fails \in {"none"} \cup {c.op : c \in SyncCalls} :
          sync = [IsNil |-> TRUE, provider |-> "nil", scim |-> "nil", fails |-> fails]

NewSyncService ==
    /\ called = "none"
    /\ \E c \in {"nil", "mock"} :
          /\ handed' = [provider |-> c, scim |-> c]
          /\ IF c = "nil"
             THEN sync' = sync /\ returned' = SyncReturn(TRUE, FALSE)
             ELSE /\ sync' = [sync EXCEPT !.IsNil = FALSE, !.provider = c, !.scim = c]
                  /\ returned' = SyncReturn(FALSE, TRUE)
    /\ called' = "NewSyncService"
    /\ issued' = <<>>
    /\ UNCHANGED <<scim, coreVars, runVars, awsVars>>

\* The calls of the order up to the first that fails, all of them if none
\* does.
RECURSIVE UntilFailure(_, _)
UntilFailure(order, fails) ==
    IF order = <<>> THEN <<>>
    ELSE IF Head(order).op = fails THEN <<Head(order)>>
    ELSE <<Head(order)>> \o UntilFailure(Tail(order), fails)

SyncGroupsAndUsers ==
    /\ called = "NewSyncService" /\ ~sync.IsNil
    /\ called' = "SyncGroupsAndUsers"
    /\ handed' = <<>>
    /\ \E order \in Orders(SyncCalls) :
          issued' = UntilFailure(order, sync.fails)
    /\ returned' = SyncReturn(\E c \in SyncCalls : c.op = sync.fails, FALSE)
    /\ UNCHANGED <<scim, coreVars, runVars, awsVars, syncVars>>

SyncNext == NewSyncService \/ SyncGroupsAndUsers

SyncSpec == SyncInit /\ [][SyncNext]_vars

-----------------------------------------------------------------------------
(* Vocabulary of the properties below.                                      *)

Returned(k) == pc = "done" /\ kind = k

GroupsOrUsers == pc = "done" /\ kind \in {"groups", "users"}

\* The natural key of a record of the snapshots in hand: the field its
\* reconciler correlates by (the Name of a group, the Email of a user).
NaturalKey(r) == IF kind = "groups" THEN r.Name ELSE r.Email

UniqueKeys(seq) ==
    \A a, b \in 1..Len(seq) : NaturalKey(seq[a]) = NaturalKey(seq[b]) => a = b

\* Both snapshots satisfy the snapshot invariant.
ValidPair == UniqueKeys(idp.Resources) /\ UniqueKeys(state.Resources)

Current == Range(idp.Resources)
Previous == Range(state.Resources)
InCreate == Range(create.Resources)
InUpdate == Range(update.Resources)
InEqual == Range(equal.Resources)
InDelete == Range(delete.Resources)

\* How many of the given sets hold x.
Count(x, sets) == Cardinality({k \in 1..Len(sets) : x \in sets[k]})

\* A previous record is matched when a current record has its natural key.
Matched(p) == \E g \in Current : NaturalKey(g) = NaturalKey(p)

-----------------------------------------------------------------------------
\* C1: partition totality of groupsDifferences and usersDifferences.  For
\* every pair of snapshots with unique natural keys, each current record is
\* in exactly one of create, update and equal, and each previous record
\* that no current record matches is in exactly one of update and delete.
C1_PartitionTotality ==
    (GroupsOrUsers /\ ValidPair) =>
        /\ \A g \in Current : Count(g, <<InCreate, InUpdate, InEqual>>) = 1
        /\ \A p \in Previous : ~Matched(p) => Count(p, <<InUpdate, InDelete>>) = 1

\* A call that filled all four partitions at once.
C1_Witness ==
    /\ GroupsOrUsers /\ ValidPair
    /\ InCreate # {} /\ InUpdate # {} /\ InEqual # {} /\ InDelete # {}

-----------------------------------------------------------------------------
\* C2 as written: groupsDifferences correlates by Email only; a current
\* group is in create exactly when no previous group has its Email, and a
\* group that keeps ID and Name but carries an Email absent from the
\* previous snapshot goes to create.
C2_CreateByEmail ==
    Returned("groups") =>
        \A g \in Current :
            /\ (g \in InCreate) <=> (\A p \in Previous : p.Email # g.Email)
            /\ ( /\ \E p \in Previous : p.ID = g.ID /\ p.Name = g.Name
                 /\ \A p \in Previous : p.Email # g.Email ) => g \in InCreate

\* C2 (amended): groupsDifferences correlates by Name only, never by ID or
\* Email; a current group is in create exactly when no previous group has
\* its Name, and a group that keeps ID and Name but carries an Email absent
\* from the previous snapshot goes to update, not to create.
C2_CreateByName ==
    Returned("groups") =>
        \A g \in Current :
            /\ (g \in InCreate) <=> (\A p \in Previous : p.Name # g.Name)
            /\ ( /\ \E p \in Previous : p.ID = g.ID /\ p.Name = g.Name
                 /\ \A p \in Previous : p.Email # g.Email )
               => (g \in InUpdate /\ g \notin InCreate)

\* A group that kept ID and Name, came with a new Email, and was updated.
C2_Witness ==
    /\ Returned("groups")
    /\ \E g \in InUpdate :
          /\ \E p \in Previous : p.ID = g.ID /\ p.Name = g.Name
          /\ \A p \in Previous : p.Email # g.Email

-----------------------------------------------------------------------------
\* The one current group and the one previous group differ in ID only.
IdChurn ==
    /\ Len(idp.Resources) = 1 /\ Len(state.Resources) = 1
    /\ idp.Resources[1].Email = state.Resources[1].Email
    /\ idp.Resources[1].Name = state.Resources[1].Name
    /\ idp.Resources[1].ID # state.Resources[1].ID

\* C3: natural-key correlation over id churn.  When the current group and
\* the previous group share Email and Name and differ in ID, create, equal
\* and delete are empty and update holds exactly the current copy; and in
\* any pair of snapshots a group whose ID alone changed is never reported as
\* a delete plus a create.
C3_IdChurn ==
    Returned("groups") =>
        /\ IdChurn =>
              /\ create.Resources = <<>> /\ equal.Resources = <<>>
              /\ delete.Resources = <<>>
              /\ update.Resources = <<idp.Resources[1]>>
        /\ \A g \in Current, p \in Previous :
              (g.Email = p.Email /\ g.Name = p.Name /\ g.ID # p.ID)
                  => ~(g \in InCreate /\ p \in InDelete)

C3_Witness == Returned("groups") /\ IdChurn /\ update.Resources = idp.Resources

-----------------------------------------------------------------------------
\* The fields of a record other than its stored fingerprint.
Content(r) == [r EXCEPT !.HashCode = ""]

\* C4 as written: a matched current record is classified by the stored
\* fingerprints alone, equal when they are equal and update when they
\* differ, whatever the other fields hold.
C4_ByStoredFingerprint ==
    (GroupsOrUsers /\ ValidPair) =>
        \A g \in Current, p \in Previous :
            NaturalKey(g) = NaturalKey(p) =>
                /\ (g \in InEqual) <=> (g.HashCode = p.HashCode)
                /\ (g \in InUpdate) <=> (g.HashCode # p.HashCode)

\* C4 (amended): a matched current record is classified by comparing the
\* content of the two records (the fingerprint computed over their fields
\* other than HashCode), not their stored HashCode: it is in equal exactly
\* when the content agrees and in update exactly when it differs, so two
\* matched records with equal stored fingerprints and different fields are
\* reported as an update.
C4_ByContent ==
    (GroupsOrUsers /\ ValidPair) =>
        \A g \in Current, p \in Previous :
            NaturalKey(g) = NaturalKey(p) =>
                /\ (g \in InEqual) <=> (Content(g) = Content(p))
                /\ (g \in InUpdate) <=> (Content(g) # Content(p))

\* An update of a record whose stored fingerprint equals the one of the
\* record it is matched to.
C4_Witness ==
    /\ GroupsOrUsers /\ ValidPair
    /\ \E g \in InUpdate, p \in Previous :
          /\ NaturalKey(g) = NaturalKey(p)
          /\ g.HashCode = p.HashCode
          /\ Content(g) # Content(p)

-----------------------------------------------------------------------------
\* C5: a previous group or user is in delete if and only if no current
\* record consumed it, that is no current record has its natural key.
C5_DeleteIffUnconsumed ==
    GroupsOrUsers => \A p \in Previous : (p \in InDelete) <=> ~Matched(p)

\* One previous user deleted and another, consumed, kept out of delete.
C5_Witness ==
    /\ Returned("users")
    /\ \E p, q \in Previous : p \in InDelete /\ Matched(q) /\ q \notin InDelete

-----------------------------------------------------------------------------
\* The snapshot is reconciled against itself.
SelfPair == UniqueKeys(idp.Resources) /\ state.Resources = idp.Resources

-----------------------------------------------------------------------------
\* The partitions the reconciler that ran returns (groupsUsersDifferences
\* returns no update).
Partitions ==
    IF kind = "members" THEN {create, equal, delete} ELSE {create, update, equal, delete}

EmptyAggregate(r) == ~r.IsNil /\ ~r.NilSlice /\ r.Resources = <<>> /\ r.Items = 0

EmptyInputs == idp.Resources = <<>> /\ state.Resources = <<>>

\* C7: empty-input closure.  With an empty current and an empty previous
\* snapshot each of the three reconcilers returns every partition as a
\* non-nil aggregate over an empty, non-nil sequence, with count 0.
C7_EmptyClosure ==
    (pc = "done" /\ EmptyInputs) => \A r \in Partitions : EmptyAggregate(r)

C7_Witness == Returned("members") /\ EmptyInputs /\ EmptyAggregate(delete)

-----------------------------------------------------------------------------
\* C8: in every returned partition the count equals the length of the
\* sequence, also when the count of an input disagrees with its sequence;
\* in a membership partition the count of each group entry equals the
\* number of members the entry carries.
C8_CountIsLength ==
    pc = "done" =>
        \A r \in Partitions :
            /\ r.Items = Len(r.Resources)
            /\ kind = "members" =>
                  \A k \in 1..Len(r.Resources) :
                      r.Resources[k].Items = Len(r.Resources[k].Resources)

\* A call whose first argument counts one more than it holds.
C8_Witness ==
    /\ Returned("groups")
    /\ idp.Items # Len(idp.Resources)
    /\ create.Items = 1 /\ Len(create.Resources) = 1

-----------------------------------------------------------------------------
\* The Go type of the aggregates in hand, as hash.Get sees it.
ResultType ==
    CASE kind = "groups" -> "GroupsResult"
      [] kind = "users" -> "UsersResult"
      [] kind = "members" -> "GroupsUsersResult"

\* C9 as written: every returned partition carries the fingerprint the
\* hasher computes over it.
C9_Recomputed ==
    pc = "done" => \A r \in Partitions : r.HashCode = HashGet(ResultType, r)

\* C9 (amended): every returned partition carries the empty fingerprint:
\* HashCode is left at its zero value, neither recomputed over the
\* resulting sequence nor inherited from an input.
C9_EmptyHashCode ==
    pc = "done" => \A r \in Partitions : r.HashCode = ""

\* Partitions returned for arguments that carry their fingerprints.
C9_Witness ==
    /\ pc = "done"
    /\ idp.HashCode # "" /\ state.HashCode # ""
    /\ create.Items > 0 /\ delete.Items > 0

-----------------------------------------------------------------------------
RECURSIVE Filter(_, _)
Filter(seq, set) ==
    IF seq = <<>> THEN <<>>
    ELSE (IF Head(seq) \in set THEN <<Head(seq)>> ELSE <<>>) \o Filter(Tail(seq), set)

\* C10: output ordering.  The records of create, update and equal keep
\* their relative order from the current snapshot and the records of delete
\* their relative order from the previous snapshot.
C10_Ordering ==
    (GroupsOrUsers /\ ValidPair) =>
        /\ create.Resources = Filter(idp.Resources, InCreate)
        /\ update.Resources = Filter(idp.Resources, InUpdate)
        /\ equal.Resources = Filter(idp.Resources, InEqual)
        /\ delete.Resources = Filter(state.Resources, InDelete)

\* Two records deleted, in the order the previous snapshot lists them.
C10_Witness ==
    /\ Returned("groups") /\ ValidPair
    /\ Len(delete.Resources) = 2 /\ delete.Resources = state.Resources

-----------------------------------------------------------------------------
\* The two users differ in the Active flag and in nothing else (the stored
\* fingerprint aside).
Deactivation(g, p) ==
    g.Active # p.Active /\ Content([g EXCEPT !.Active = p.Active]) = Content(p)

\* C11: user deactivation.  When a current user has the Email and all other
\* fields of a previous user except that Active differs, usersDifferences
\* puts the current copy in update, and no user with that Email is in
\* create or in delete.
C11_Deactivation ==
    (Returned("users") /\ ValidPair) =>
        \A g \in Current, p \in Previous :
            Deactivation(g, p) =>
                /\ g \in InUpdate
                /\ \A r \in InCreate \cup InDelete : r.Email # g.Email

\* A user that was active in the previous snapshot, is inactive in the
\* current one, and was updated.
C11_Witness ==
    /\ Returned("users") /\ ValidPair
    /\ \E g \in InUpdate, p \in Previous : Deactivation(g, p) /\ p.Active /\ ~g.Active

-----------------------------------------------------------------------------
(* Vocabulary of the membership properties.                                 *)

MemberIDs(users) == {users[k].ID : k \in 1..Len(users)}

\* The positions of a membership aggregate that hold the group.
EntriesOf(part, gid) == {k \in 1..Len(part.Resources) : part.Resources[k].Group.ID = gid}

\* The ids of the members the aggregate carries for the group.
MembersOf(part, gid) ==
    UNION {MemberIDs(part.Resources[k].Resources) : k \in EntriesOf(part, gid)}

UniqueGroupIDs(seq) ==
    \A a, b \in 1..Len(seq) : seq[a].Group.ID = seq[b].Group.ID => a = b

\* Both membership snapshots hold one entry per group id.
ValidMemberships == UniqueGroupIDs(idp.Resources) /\ UniqueGroupIDs(state.Resources)

GroupIDsOf(part) == {part.Resources[k].Group.ID : k \in 1..Len(part.Resources)}

-----------------------------------------------------------------------------
\* C12: per-group membership split.  For every group id present in both
\* membership snapshots, the create entry of the group holds exactly the
\* members whose id is in current and not in previous, its equal entry
\* exactly those whose id is in both, its delete entry exactly those whose
\* id is only in previous; the three sets are pairwise disjoint, and
\* groupsUsersDifferences returns no update partition.
C12_PerGroupSplit ==
    (Returned("members") /\ ValidMemberships) =>
        /\ update = NilResult
        /\ \A a \in 1..Len(idp.Resources), b \in 1..Len(state.Resources) :
              LET m == idp.Resources[a]
                  p == state.Resources[b]
                  gid == m.Group.ID
                  cur == MemberIDs(m.Resources)
                  prev == MemberIDs(p.Resources)
              IN  p.Group.ID = gid =>
                      /\ MembersOf(create, gid) = cur \ prev
                      /\ MembersOf(equal, gid) = cur \cap prev
                      /\ MembersOf(delete, gid) = prev \ cur
                      /\ MembersOf(create, gid) \cap MembersOf(equal, gid) = {}
                      /\ MembersOf(create, gid) \cap MembersOf(delete, gid) = {}
                      /\ MembersOf(equal, gid) \cap MembersOf(delete, gid) = {}

\* One group in both snapshots gained a member and kept one, another lost
\* a member and kept one.
C12_Witness ==
    /\ Returned("members") /\ ValidMemberships
    /\ \E g, h \in GroupIDsOf(idp) \cap GroupIDsOf(state) :
          /\ MembersOf(create, g) # {} /\ MembersOf(equal, g) # {}
          /\ MembersOf(delete, h) # {} /\ MembersOf(equal, h) # {}

-----------------------------------------------------------------------------
-----------------------------------------------------------------------------
\* The partition holds exactly one entry for the group, with these members.
OneEntry(part, gid, members) ==
    \E k \in 1..Len(part.Resources) :
        EntriesOf(part, gid) = {k} /\ part.Resources[k].Resources = members

Absent(part, gid) == EntriesOf(part, gid) = {}

-----------------------------------------------------------------------------
\* A membership snapshot reconciled against itself.
MembershipSelfPair == UniqueGroupIDs(idp.Resources) /\ state = idp

\* What is compared of a membership entry: the group, the members and the
\* count.
EntryShape(e) == [Group |-> e.Group, Resources |-> e.Resources, Items |-> e.Items]

Shapes(seq) == [k \in 1..Len(seq) |-> EntryShape(seq[k])]

\* The entries of the sequence that have at least one member, in order.
RECURSIVE WithMembers(_)
WithMembers(seq) ==
    IF seq = <<>> THEN <<>>
    ELSE (IF Head(seq).Resources # <<>> THEN <<Head(seq)>> ELSE <<>>)
             \o WithMembers(Tail(seq))

\* C15 as written: reconciling any valid membership snapshot against itself
\* yields empty create and delete and an equal partition equal to the
\* snapshot: same groups, same members per group, same counts.
C15_Idempotence ==
    (Returned("members") /\ MembershipSelfPair) =>
        /\ create.Resources = <<>> /\ delete.Resources = <<>>
        /\ Shapes(equal.Resources) = Shapes(idp.Resources)
        /\ equal.Items = idp.Items

\* C15 (amended): reconciling a valid membership snapshot against itself
\* yields empty create and delete and an equal partition holding, in
\* order, the entries of the snapshot that have at least one member, with
\* the same group, members and count; an entry without members is in no
\* partition, so equal is the snapshot exactly when every group of it has
\* a member.
C15_IdempotenceWithMembers ==
    (Returned("members") /\ MembershipSelfPair) =>
        /\ create.Resources = <<>> /\ delete.Resources = <<>>
        /\ Shapes(equal.Resources) = Shapes(WithMembers(idp.Resources))
        /\ equal.Items = Len(WithMembers(idp.Resources))
        /\ (\A k \in 1..Len(idp.Resources) : idp.Resources[k].Resources # <<>>)
               => (Shapes(equal.Resources) = Shapes(idp.Resources)
                   /\ equal.Items = idp.Items)

\* A snapshot of two groups with members, reconciled against itself.
C15_Witness ==
    /\ Returned("members") /\ MembershipSelfPair
    /\ Len(idp.Resources) = 2
    /\ \A k \in 1..2 : idp.Resources[k].Resources # <<>>
    /\ Shapes(equal.Resources) = Shapes(idp.Resources)

-----------------------------------------------------------------------------
Running == schedule \in {"loop", "goroutines"}

-----------------------------------------------------------------------------
\* The lists of a call that ran alone up to iteration n of the given loop.
AloneFrame(p, a, phase, n) ==
    LET cur == IF phase = "current" THEN SubSeq(a.idp.Resources, 1, n - 1)
               ELSE a.idp.Resources
        prv == IF phase = "current" THEN <<>> ELSE SubSeq(a.state.Resources, 1, n - 1)
        scanned == IF p = "members"
                       THEN ScanMemberships(cur, a.state.Resources, EmptyFrame)
                   ELSE ScanCurrent(p, cur, a.state.Resources, EmptyFrame)
    IN  [scanned EXCEPT !.toDelete =
            IF p = "members" THEN ScanLeftovers(prv, a.idp.Resources, <<>>)
            ELSE ScanPrevious(p, prv, a.idp.Resources, <<>>)]

-----------------------------------------------------------------------------
\* The method of SCIMProvider returned its results, no error and no panic.
Answered(method) == called = method /\ ~returned.err /\ ~returned.panic

-----------------------------------------------------------------------------
\* C20: every GroupsResult that GetGroups returns has the Email of its
\* groups unique, for every list of groups with distinct ids that the SCIM
\* API answers with.
C20_EmailUnique ==
    Answered("GetGroups") =>
        \A a, b \in 1..Len(returned.groups.Resources) :
            returned.groups.Resources[a].Email = returned.groups.Resources[b].Email
                => a = b

-----------------------------------------------------------------------------
\* The protocol operation a method that is handed a partition stands for,
\* "none" for the other methods.
OperationOf(method) ==
    CASE method \in {"CreateGroups", "CreateUsers"} -> "Create"
      [] method \in {"UpdateGroups", "UpdateUsers"} -> "Patch"
      [] method \in {"DeleteGroups", "DeleteUsers"} -> "Delete"
      [] OTHER -> "none"

\* C21: a create partition handed to CreateGroups or CreateUsers issues one
\* Create call per record, an update partition handed to UpdateGroups or
\* UpdateUsers one Patch per record, and a delete partition handed to
\* DeleteGroups or DeleteUsers one Delete per record; no other call is
\* issued.
C21_OneCallPerRecord ==
    OperationOf(called) # "none" =>
        /\ Len(issued) = Len(handed.Resources)
        /\ \A k \in 1..Len(issued) : issued[k].op = OperationOf(called)

-----------------------------------------------------------------------------
\* The ids of the groups that the ListGroups query of at least one listed
\* user returned.
QueriedGroups ==
    {g \in IDsOf(scim.groups) : \E k \in 1..Len(scim.users) : scim.users[k].ID \in scim.members[g]}

\* The ids of the listed users whose query returned the group, in the order
\* of the users list.
QueriedMembers(gid) ==
    SelectSeq([k \in 1..Len(scim.users) |-> scim.users[k].ID],
              LAMBDA uid : uid \in scim.members[gid])

\* C30: the membership snapshot of GetUsersAndGroupsUsers.  When every
\* ListUsers and ListGroups call succeeds, it holds one entry per group id
\* that some per-user query returned and none for a group without members;
\* the members of an entry are the users whose query returned the group,
\* each once, in the order of the users list; the Items of an entry is the
\* number of its members and the Items of the aggregate the number of
\* entries.  When a call fails, both results are nil and the error is
\* returned.
C30_MembershipShape ==
    called = "GetUsersAndGroupsUsers" /\ ~returned.panic =>
        IF \E k \in 1..Len(issued) : scim.fails = issued[k].op
        THEN returned.err /\ returned.users.IsNil /\ returned.groupsUsers.IsNil
        ELSE LET entries == returned.groupsUsers.Resources
             IN  /\ ~returned.err /\ ~returned.groupsUsers.IsNil
                 /\ {entries[k].Group.ID : k \in 1..Len(entries)} = QueriedGroups
                 /\ Len(entries) = Cardinality(QueriedGroups)
                 /\ \A k \in 1..Len(entries) :
                       /\ [j \in 1..Len(entries[k].Resources) |-> entries[k].Resources[j].ID]
                              = QueriedMembers(entries[k].Group.ID)
                       /\ entries[k].Resources # <<>>
                       /\ entries[k].Items = Len(entries[k].Resources)
                 /\ returned.groupsUsers.Items = Len(entries)

\* Two groups in the directory, one with both users as members and one
\* with none: one entry, of two members.
C30_Witness ==
    /\ Answered("GetUsersAndGroupsUsers")
    /\ Len(scim.groups) = 2
    /\ Len(returned.groupsUsers.Resources) = 1
    /\ Len(returned.groupsUsers.Resources[1].Resources) = 2

-----------------------------------------------------------------------------
\* The resource kind in the name of the method that ran.
KindOf(method) ==
    CASE method \in {"CreateUser", "ListUsers", "PutUser", "DeleteUser", "PatchUser"} -> "Users"
      [] method \in {"CreateGroup", "ListGroups", "DeleteGroup", "PatchGroup"} -> "Groups"
      [] OTHER -> "none"

Bearer == "Bearer " \o aws.bearerToken

\* C24: DeleteUser with a non-empty id sends exactly one request, whose
\* method is DELETE, whose path is the path of the service URL joined with
\* /Users/<id> and which carries Accept: application/json and
\* Authorization: Bearer <token>, and it returns nil when the response
\* status is 204; DeleteGroup does the same with /Groups/<id>.
C24_DeleteRequest ==
    called \in {"DeleteUser", "DeleteGroup"} =>
        (handed # "" =>
            /\ Len(issued) = 1
            /\ issued[1].Method = "DELETE"
            /\ issued[1].URL.Path = PathJoin(aws.url.Path, <<KindOf(called), handed>>)
            /\ issued[1].Header.Accept = "application/json"
            /\ issued[1].Header.Authorization = Bearer
            /\ (~http.err /\ http.resp.StatusCode = 204 => returned.err = ""))

-----------------------------------------------------------------------------
\* The strings of UrlStrings that net/url does not parse.
Unparseable == {"https://%%testing.com"}

\* C25: NewSCIMService returns ErrURLEmpty and a nil service when the URL
\* string is empty, another error and a nil service when the string cannot
\* be parsed, and otherwise a service and no error; a nil HTTP client is
\* accepted, and the service then holds the default client.
C25_NewSCIMService ==
    called = "NewSCIMService" =>
        /\ handed.urlStr = "" =>
               returned.err = "ErrURLEmpty" /\ aws.IsNil /\ ~returned.value
        /\ handed.urlStr \in Unparseable =>
               returned.err \notin {"", "ErrURLEmpty"} /\ aws.IsNil /\ ~returned.value
        /\ handed.urlStr \notin Unparseable \cup {""} =>
               /\ returned.err = "" /\ ~aws.IsNil /\ returned.value
               /\ aws.bearerToken = handed.token
               /\ aws.httpClient = IF handed.httpClient = "nil" THEN "default" ELSE "given"

\* Built without a client, from a URL with a path.
C25_Witness ==
    /\ called = "NewSCIMService"
    /\ handed.httpClient = "nil"
    /\ aws.httpClient = "default"
    /\ aws.url.Path = <<"scim", "v2">>
    /\ returned.err = ""

-----------------------------------------------------------------------------
InRange(code) == 200 <= code /\ code < 400

\* C26: do returns a nil response and an error when the Do of the client
\* fails or the status code of the response is below 200 or at least 400;
\* it returns the response of the client, as it is, and no error exactly
\* when Do succeeds with a status code in [200, 400); every request that
\* is sent carries Authorization: Bearer <token>.
C26_Do ==
    /\ called = "do" =>
           /\ (http.err \/ ~InRange(http.resp.StatusCode)) =>
                  returned.resp.IsNil /\ returned.err # ""
           /\ (returned.err = "" /\ ~returned.resp.IsNil /\ returned.resp = http.resp)
                  <=> (~http.err /\ InRange(http.resp.StatusCode))
           /\ Len(issued) = 1
           /\ [issued[1] EXCEPT !.Header.Authorization = ""]
                  = [handed EXCEPT !.Header.Authorization = ""]
    /\ called \notin {"none", "NewSCIMService"} =>
           \A k \in 1..Len(issued) : issued[k].Header.Authorization = Bearer

\* A status just below 400 comes back, and the Authorization the request
\* came with was replaced.
C26_Witness ==
    /\ called = "do"
    /\ ~http.err /\ http.resp.StatusCode = 399
    /\ returned.resp = http.resp /\ returned.err = ""
    /\ handed.Header.Authorization = "Bearer other"
    /\ issued[1].Header.Authorization = "Bearer MyToken"

-----------------------------------------------------------------------------
\* The checks a method makes on what it is handed, in the order of the
\* claim: whether the check fails, and its sentinel.
UserChecks(usr, empty) ==
    <<<<usr.IsNil, empty>>,
      <<usr.DisplayName = "", "ErrDisplayNameEmpty">>,
      <<usr.Name.GivenName = "", "ErrGivenNameEmpty">>,
      <<usr.Name.FamilyName = "", "ErrFamilyNameEmpty">>,
      <<Len(usr.Emails) > 1, "ErrEmailsTooMany">>>>

ChecksOf(method, arg) ==
    CASE method = "CreateUser" -> UserChecks(arg, "ErrCreateUserRequestEmpty")
      [] method = "PutUser" -> UserChecks(arg, "ErrPutUserRequestEmpty")
      [] method = "CreateGroup" ->
             <<<<arg.IsNil, "ErrCreateGroupRequestEmpty">>,
               <<arg.DisplayName = "", "ErrDisplayNameEmpty">>>>
      [] method = "DeleteUser" -> <<<<arg = "", "ErrUserIDEmpty">>>>
      [] method = "DeleteGroup" -> <<<<arg = "", "ErrGroupIDEmpty">>>>
      [] method = "PatchUser" ->
             <<<<arg.IsNil, "ErrPatchUserRequestEmpty">>, <<arg.ID = "", "ErrUserIDEmpty">>>>
      [] method = "PatchGroup" ->
             <<<<arg.IsNil, "ErrPatchGroupRequestEmpty">>, <<arg.ID = "", "ErrGroupIDEmpty">>>>
      [] OTHER -> <<>>

Failing(checks) == {k \in 1..Len(checks) : checks[k][1]}

\* C27: validation comes before any network call.  A method that is handed
\* a request failing one of its checks returns the sentinel of the first
\* check that fails (for CreateUser and PutUser: request empty, display
\* name empty, given name empty, family name empty, more than one email)
\* and the Do of the HTTP client is not called.
C27_ValidationFirst ==
    LET checks == ChecksOf(called, handed)
    IN  Failing(checks) # {} =>
            /\ \E k \in Failing(checks) :
                  /\ \A j \in Failing(checks) : k <= j
                  /\ returned.err = checks[k][2]
            /\ ~returned.panic
            /\ issued = <<>>

\* CreateUser is handed a request without a given name and with two
\* emails: the given name is reported.
C27_Witness ==
    /\ called = "CreateUser"
    /\ ~handed.IsNil /\ handed.DisplayName # "" /\ handed.Name.GivenName = ""
    /\ Len(handed.Emails) = 2
    /\ returned.err = "ErrGivenNameEmpty"
    /\ issued = <<>>

-----------------------------------------------------------------------------
\* C28: no crash on users without emails.  CreateUser, handed a request
\* with a display, a given and a family name, returns a response or an
\* error whatever the length of the email list, and so does
\* SCIMProvider.GetUsers whatever the email lists of the listed users.
C28_NoCrash ==
    /\ called = "CreateUser" =>
           (~handed.IsNil /\ handed.DisplayName # "" /\ handed.Name.GivenName # ""
                /\ handed.Name.FamilyName # ""
              => ~returned.panic /\ (returned.value \/ returned.err # ""))
    /\ called = "GetUsers" => ~returned.panic

-----------------------------------------------------------------------------
\* The path is that of the service URL followed by the resource kind and,
\* possibly, more.
Under(path, resource) ==
    /\ Len(path) > Len(aws.url.Path)
    /\ SubSeq(path, 1, Len(aws.url.Path) + 1) = aws.url.Path \o <<resource>>

\* C29: every request of CreateUser, ListUsers, PutUser, DeleteUser and
\* PatchUser goes to a path under /Users (that of PatchUser to
\* /Users/<user id>), and every request of CreateGroup, ListGroups,
\* DeleteGroup and PatchGroup to a path under /Groups.
C29_ResourceKind ==
    KindOf(called) # "none" =>
        \A k \in 1..Len(issued) :
            /\ Under(issued[k].URL.Path, KindOf(called))
            /\ called = "PatchUser" =>
                   issued[k].URL.Path = aws.url.Path \o <<"Users", handed.ID>>

-----------------------------------------------------------------------------
\* How many times the run called the method of the collaborator.
Times(on, op) == Cardinality({k \in 1..Len(issued) : issued[k] = SyncCall(on, op)})

\* C23: one run of SyncGroupsAndUsers in which every call on a collaborator
\* succeeds calls GetGroups and GetUsers of the identity provider once each
\* and CreateOrUpdateGroups, CreateOrUpdateUsers, DeleteGroups and
\* DeleteUsers of the SCIM service once each, and returns no error;
\* NewSyncService, handed a nil provider and a nil SCIM service, returns an
\* error and no service.
C23_OneRun ==
    /\ called = "SyncGroupsAndUsers" /\ sync.fails = "none" =>
           /\ Times("provider", "GetGroups") = 1
           /\ Times("provider", "GetUsers") = 1
           /\ Times("scim", "CreateOrUpdateGroups") = 1
           /\ Times("scim", "CreateOrUpdateUsers") = 1
           /\ Times("scim", "DeleteGroups") = 1
           /\ Times("scim", "DeleteUsers") = 1
           /\ Len(issued) = 6
           /\ ~returned.err
    /\ called = "NewSyncService" /\ handed.provider = "nil" /\ handed.scim = "nil" =>
           returned.err /\ ~returned.value /\ sync.IsNil

\* A run with no failing call that ends with the users being fetched.
C23_Witness ==
    /\ called = "SyncGroupsAndUsers"
    /\ sync.fails = "none"
    /\ ~returned.err
    /\ issued[6] = SyncCall("provider", "GetUsers")

====
